---- MODULE Spec2Model ----
(***************************************************************************)
(* State-machine model of ros2_batch_job/__main__.py: the orchestration    *)
(* driver run(), the injected build_and_test() step and the process entry  *)
(* point.  Every statement group of run() that has an observable effect    *)
(* is one action; the program counter pc names the action to run next.     *)
(* The batch-job classes and the util helpers are not part of the source   *)
(* tree; their behaviour (job.run, push_run, push_python, the hooks,       *)
(* change_directory, clean_workspace, generated_venv_vars) follows the     *)
(* written specification, sections 4.1 to 4.3.                             *)
(***************************************************************************)
EXTENDS Integers, Sequences, FiniteSets, TLC

VARIABLES
    os_arg,             \* the --os option as parsed: "None" or a choice
    args_os,            \* args.os: starts as os_arg, reassigned by run()
    host,               \* how platform.platform().lower() starts
    do_venv,            \* args.do_venv
    test_branch,        \* args.test_branch: "None" or a branch name
    isolated,           \* args.isolated
    force_ansi_color,   \* args.force_ansi_color
    white_space_in,     \* args.white_space_in: WsNone (None) or a set of names
    ament_args,         \* args.ament_args: a sequence of tokens
    env0_TERM,          \* TERM as the process inherited it ("unset" when absent)
    env0_ConEmuANSI,    \* ConEmuANSI as the process inherited it
    workspace,          \* args.workspace   ("" while not yet assigned)
    sourcespace,        \* args.sourcespace
    buildspace,         \* args.buildspace
    installspace,       \* args.installspace
    job,                \* the batch job: "None" or the class instantiated
    job_run,            \* job.run: the stack of wrappers commands go through
    job_python,         \* job.python: the interpreter path in effect
    venv_path,          \* local venv_path of run() ("" while unbound)
    vcs_cmd,            \* local vcs_cmd of run() (<<>> while unbound)
    env_TERM,           \* os.environ['TERM']       ("unset" when absent)
    env_ConEmuANSI,     \* os.environ['ConEmuANSI'] ("unset" when absent)
    env_writes,         \* the names run() has assigned in os.environ
    color_forced,       \* force_color() has been called
    cleaned,            \* how many times clean_workspace() has run
    cwd,                \* the process's working directory
    scope,              \* directories saved by the open change_directory blocks
    calls,              \* the call log: one record per command handed to job.run
    steps,              \* the collaborator calls carried out, by name, in order
    logged,             \* the info() lines that report a command's return code
    ret,                \* the value the last job.run returned to its caller
    retval,             \* the value build_function returned
    raised,             \* the exception in flight: <<>> or <<[status, message]>>
    pc,                 \* the action to run next; "exited" once the process ended
    exit_status,        \* the status the process ended with
    exit_message        \* what the interpreter printed on ending, if anything

inputs == <<os_arg, host, do_venv, test_branch, isolated, force_ansi_color,
            ament_args, env0_TERM, env0_ConEmuANSI>>

spaces == <<white_space_in, workspace, sourcespace, buildspace, installspace>>

jobv == <<job, job_run, job_python>>

envv == <<env_TERM, env_ConEmuANSI, env_writes, color_forced>>

dirv == <<cwd, scope>>

locals == <<venv_path, vcs_cmd, retval>>

outcome == <<exit_status, exit_message>>

vars == <<args_os, inputs, spaces, jobv, envv, dirv, locals, outcome, cleaned,
          calls, steps, logged, ret, raised, pc>>

(***************************************************************************)
(* Bounds of the explored inputs.                                          *)
(***************************************************************************)
MaxStatus == 2

Statuses == 0..MaxStatus

OsChoices == {"linux", "osx", "windows"}

Hosts == {"linux", "darwin", "windows", "other"}

SpaceChoices == {"sourcespace", "buildspace", "installspace", "workspace"}

\* args.white_space_in = None (the option was not given)
WsNone == {"<None>"}

WhiteSpaceInputs == {WsNone, {}, {"workspace", "sourcespace"}, SpaceChoices}

\* args.ament_args (lines 100-103): the tokens that follow --ament-args on
\* the command line, none when the option is absent
AmentArgsInputs == {<< >>, <<"--parallel">>}

TermInputs == {"unset", "dumb"}

ConEmuInputs == {"unset", "OFF"}

StartDir == "/ci"

\* args.repo_file_url (its default, line 67)
RepoFileUrl == "https://raw.githubusercontent.com/ros2/ros2/master/ros2.repos"

(***************************************************************************)
(* String helpers.                                                         *)
(***************************************************************************)
\* '"%s"' % s
Quote(s) == "\"" \o s \o "\""

\* os.sep of the host the script runs on
Sep == IF host = "windows" THEN "\\" ELSE "/"

RECURSIVE JoinPath(_)
\* os.path.join(*parts), parts non-empty and none of them absolute after the first
JoinPath(parts) ==
    IF Len(parts) = 1 THEN parts[1]
    ELSE JoinPath(SubSeq(parts, 1, Len(parts) - 1)) \o Sep \o parts[Len(parts)]

pip_dependencies ==
    <<"nose", "pep8", "pyflakes", "flake8", "mock", "coverage", "EmPy", "vcstool">>

SysExecutable == "sys.executable"

Init ==
    /\ os_arg \in {"None"} \cup OsChoices
    /\ args_os = os_arg
    /\ host \in Hosts
    /\ do_venv \in BOOLEAN
    /\ test_branch \in {"None", "release-x"}
    /\ isolated \in BOOLEAN
    /\ force_ansi_color \in BOOLEAN
    /\ white_space_in \in WhiteSpaceInputs
    /\ ament_args \in AmentArgsInputs
    /\ workspace = ""
    /\ sourcespace = ""
    /\ buildspace = ""
    /\ installspace = ""
    /\ job = "None"
    /\ job_run = << >>
    /\ job_python = ""
    /\ venv_path = ""
    /\ vcs_cmd = << >>
    /\ retval = 0
    /\ env0_TERM \in TermInputs
    /\ env0_ConEmuANSI \in ConEmuInputs
    /\ env_TERM = env0_TERM
    /\ env_ConEmuANSI = env0_ConEmuANSI
    /\ env_writes = {}
    /\ color_forced = FALSE
    /\ cleaned = 0
    /\ cwd = StartDir
    /\ scope = << >>
    /\ calls = << >>
    /\ steps = << >>
    /\ logged = << >>
    /\ ret = 0
    /\ raised = << >>
    /\ pc = "resolve_paths"
    /\ exit_status = 0
    /\ exit_message = ""

(***************************************************************************)
(* The batch job's generic operations (sections 4.1 and 4.2 of the         *)
(* specification; the classes themselves are outside the source tree).     *)
(***************************************************************************)
\* sys.exit(status) with an integer: the exception in flight.
SystemExit(status) == <<[status |-> status, message |-> ""]>>

\* sys.exit(message) with a string, or an error nobody catches: the
\* interpreter prints the message and ends with status 1.
ErrorExit(message) == <<[status |-> 1, message |-> message]>>

\* job.run(cmd, shell=..., exit_on_error=...) at the call site `step`:
\* the command goes through the run binding in effect, its status is
\* returned, and a nonzero status with exit_on_error on ends the run with it.
JobRun(step, cmd, shell, exit_on_error, next) ==
    \E status \in Statuses :
        /\ calls' = Append(calls, [step |-> step, cmd |-> cmd, shell |-> shell,
                                   exit_on_error |-> exit_on_error,
                                   run |-> job_run, python |-> job_python,
                                   cwd |-> cwd, status |-> status])
        /\ steps' = Append(steps, step)
        /\ IF exit_on_error /\ status # 0
             THEN /\ raised' = SystemExit(status)
                  /\ pc' = "raise"
                  /\ ret' = ret
             ELSE /\ raised' = raised
                  /\ pc' = next
                  /\ ret' = status

\* job.push_run(binding): the binding replaces the active one.
PushRun(binding) == job_run' = <<binding>>

\* job.push_python(path): the path replaces the active one.
PushPython(path) == job_python' = path

\* job.setup_env(): layers the variant's sourcing on the run binding in effect.
JobSetupEnv == job_run' = Append(job_run, "setup_env:" \o job)

\* change_directory(path).__enter__: save the directory, enter path.
ChangeDirectoryEnter(path) ==
    /\ scope' = Append(scope, cwd)
    /\ cwd' = JoinPath(<<cwd, path>>)

\* change_directory(path).__exit__: back to the saved directory.
ChangeDirectoryExit ==
    /\ cwd' = scope[Len(scope)]
    /\ scope' = SubSeq(scope, 1, Len(scope) - 1)

\* generated_venv_vars(venv_path)[1]: the interpreter of the virtual env.
VenvPython(path) == JoinPath(<<path, "bin", "python">>)

\* info("'{0}' returned ..."): one line naming the step and its status.
Info(step, status) == logged' = Append(logged, [step |-> step, status |-> status])

(***************************************************************************)
(* run(), lines 146 to 262.                                                *)
(***************************************************************************)
\* what a job.run call site leaves alone
CmdFrame ==
    UNCHANGED <<args_os, inputs, spaces, jobv, envv, dirv, locals, outcome,
                cleaned, logged>>

\* args.<name> = '<spaced>' if '<key>' in args.white_space_in else '<plain>'
SpaceName(key, spaced, plain, chosen) == IF key \in chosen THEN spaced ELSE plain

\* lines 147-160
ResolvePaths ==
    /\ pc = "resolve_paths"
    /\ color_forced' = force_ansi_color
    /\ white_space_in' = IF white_space_in = WsNone THEN {} ELSE white_space_in
    /\ workspace' = SpaceName("workspace", "work space", "workspace", white_space_in')
    /\ sourcespace' = SpaceName("sourcespace", "source space", "src", white_space_in')
    /\ buildspace' = SpaceName("buildspace", "build space", "build", white_space_in')
    /\ installspace' =
          SpaceName("installspace", "install space", "install", white_space_in')
    /\ pc' = "select_variant"
    /\ UNCHANGED <<args_os, inputs, jobv, env_TERM, env_ConEmuANSI, env_writes,
                   dirv, locals, outcome, cleaned, calls, steps, logged, ret, raised>>

\* lines 162-174: the variant chosen for an override and a detected platform
SelectedOs(override, platform_name) ==
    IF override = "linux" \/ platform_name = "linux" THEN "linux"
    ELSE IF override = "osx" \/ platform_name = "darwin" THEN "osx"
    ELSE IF override = "windows" \/ platform_name = "windows" THEN "windows"
    ELSE "None"

\* the class each branch of lines 163-174 instantiates
JobClass(os) ==
    CASE os = "linux" -> "LinuxBatchJob"
      [] os = "osx" -> "OSXBatchJob"
      [] os = "windows" -> "WindowsBatchJob"
      [] OTHER -> "None"

\* lines 162-174; a fresh job runs commands directly with sys.executable
SelectVariant ==
    /\ pc = "select_variant"
    /\ LET os == SelectedOs(args_os, host) IN
         /\ args_os' = IF os = "None" THEN args_os ELSE os
         /\ job' = JobClass(os)
         /\ job_run' = IF os = "None" THEN job_run ELSE <<"run">>
         /\ job_python' = IF os = "None" THEN job_python ELSE SysExecutable
    /\ pc' = "check_venv"
    /\ UNCHANGED <<inputs, spaces, envv, dirv, locals, outcome, cleaned, calls,
                   steps, logged, ret, raised>>

\* CheckVenv as it would be were the rejection left out
CheckVenv_Missing ==
    /\ pc = "check_venv"
    /\ pc' = "set_env"
    /\ UNCHANGED <<args_os, inputs, spaces, jobv, envv, dirv, locals, outcome,
                   cleaned, calls, steps, logged, ret, raised>>

\* lines 176-177
CheckVenv ==
    /\ pc = "check_venv"
    /\ IF do_venv /\ args_os = "windows"
         THEN /\ raised' = ErrorExit("--do-venv is not supported on windows")
              /\ pc' = "raise"
         ELSE /\ raised' = raised
              /\ pc' = "set_env"
    /\ UNCHANGED <<args_os, inputs, spaces, jobv, envv, dirv, locals, outcome,
                   cleaned, calls, steps, logged, ret>>

\* SetEnv as it would be were TERM assigned without looking at its value
SetEnv_ForceTerm ==
    /\ pc = "set_env"
    /\ env_TERM' = "xterm-256color"
    /\ env_ConEmuANSI' = IF args_os = "windows" THEN "ON" ELSE env_ConEmuANSI
    /\ env_writes' = env_writes \cup {"TERM"}
                        \cup (IF args_os = "windows" THEN {"ConEmuANSI"} ELSE {})
    /\ pc' = "clean_workspace"
    /\ UNCHANGED <<args_os, inputs, spaces, jobv, color_forced, dirv, locals,
                   outcome, cleaned, calls, steps, logged, ret, raised>>

\* lines 179-184
SetEnv ==
    /\ pc = "set_env"
    /\ env_TERM' = IF env_TERM = "unset" THEN "xterm-256color" ELSE env_TERM
    /\ env_ConEmuANSI' = IF args_os = "windows" THEN "ON" ELSE env_ConEmuANSI
    /\ env_writes' = env_writes \cup {"TERM"}
                        \cup (IF args_os = "windows" THEN {"ConEmuANSI"} ELSE {})
    /\ pc' = "clean_workspace"
    /\ UNCHANGED <<args_os, inputs, spaces, jobv, color_forced, dirv, locals,
                   outcome, cleaned, calls, steps, logged, ret, raised>>

\* lines 186-187
CleanWorkspace ==
    /\ pc = "clean_workspace"
    /\ cleaned' = cleaned + 1
    /\ steps' = Append(steps, "clean_workspace")
    /\ pc' = "pre"
    /\ UNCHANGED <<args_os, inputs, spaces, jobv, envv, dirv, locals, outcome,
                   calls, logged, ret, raised>>

\* line 190; with job None the attribute lookup raises
Pre ==
    /\ pc = "pre"
    /\ IF job = "None"
         THEN /\ raised' = ErrorExit("AttributeError")
              /\ pc' = "raise"
              /\ steps' = steps
         ELSE /\ raised' = raised
              /\ pc' = "show_env"
              /\ steps' = Append(steps, "pre")
    /\ UNCHANGED <<args_os, inputs, spaces, jobv, envv, dirv, locals, outcome,
                   cleaned, calls, logged, ret>>

\* line 192
ShowEnv ==
    /\ pc = "show_env"
    /\ steps' = Append(steps, "show_env")
    /\ pc' = "install_virtualenv"
    /\ UNCHANGED <<args_os, inputs, spaces, jobv, envv, dirv, locals, outcome,
                   cleaned, calls, logged, ret, raised>>

\* InstallVirtualenv as it would be without the test of args.os
InstallVirtualenv_AnyOs ==
    /\ pc = "install_virtualenv"
    /\ JobRun("install_virtualenv",
              <<SysExecutable, "-m", "pip", "install", "-U", "virtualenv">>,
              FALSE, TRUE, "enter_workspace")
    /\ CmdFrame

\* InstallVirtualenv as it would be with the test of args.os inverted
InstallVirtualenv_LinuxOnly ==
    /\ pc = "install_virtualenv"
    /\ IF args_os = "linux"
         THEN JobRun("install_virtualenv",
                     <<SysExecutable, "-m", "pip", "install", "-U", "virtualenv">>,
                     FALSE, TRUE, "enter_workspace")
         ELSE /\ pc' = "enter_workspace"
              /\ UNCHANGED <<calls, steps, raised, ret>>
    /\ CmdFrame

\* lines 194-199
InstallVirtualenv ==
    /\ pc = "install_virtualenv"
    /\ IF args_os # "linux"
         THEN JobRun("install_virtualenv",
                     <<SysExecutable, "-m", "pip", "install", "-U", "virtualenv">>,
                     FALSE, TRUE, "enter_workspace")
         ELSE /\ pc' = "enter_workspace"
              /\ UNCHANGED <<calls, steps, raised, ret>>
    /\ CmdFrame

\* EnterWorkspace as it would be were the virtual env entered unasked
EnterWorkspace_AlwaysVenv ==
    /\ pc = "enter_workspace"
    /\ ChangeDirectoryEnter(workspace)
    /\ steps' = Append(steps, "enter_workspace")
    /\ pc' = "create_venv"
    /\ UNCHANGED <<args_os, inputs, spaces, jobv, envv, locals, outcome, cleaned,
                   calls, logged, ret, raised>>

\* line 201
EnterWorkspace ==
    /\ pc = "enter_workspace"
    /\ ChangeDirectoryEnter(workspace)
    /\ steps' = Append(steps, "enter_workspace")
    /\ pc' = IF do_venv THEN "create_venv" ELSE "pip_upgrade"
    /\ UNCHANGED <<args_os, inputs, spaces, jobv, envv, locals, outcome, cleaned,
                   calls, logged, ret, raised>>

\* lines 203-204
CreateVenv ==
    /\ pc = "create_venv"
    /\ JobRun("create_venv",
              <<SysExecutable, "-m", "virtualenv", "-p", SysExecutable, "venv">>,
              FALSE, TRUE, "push_run")
    /\ CmdFrame

\* lines 205-207
RebindRun ==
    /\ pc = "push_run"
    /\ venv_path' = JoinPath(<<cwd, "venv">>)
    /\ PushRun("venv")
    /\ pc' = "push_python"
    /\ UNCHANGED <<args_os, inputs, spaces, job, job_python, envv, dirv, vcs_cmd,
                   retval, outcome, cleaned, calls, steps, logged, ret, raised>>

\* RebindPython as it would be were line 208 left out
RebindPython_Skipped ==
    /\ pc = "push_python"
    /\ pc' = "show_env_venv"
    /\ UNCHANGED <<args_os, inputs, spaces, jobv, envv, dirv, locals, outcome,
                   cleaned, calls, steps, logged, ret, raised>>

\* line 208
RebindPython ==
    /\ pc = "push_python"
    /\ PushPython(VenvPython(venv_path))
    /\ pc' = "show_env_venv"
    /\ UNCHANGED <<args_os, inputs, spaces, job, job_run, envv, dirv, locals,
                   outcome, cleaned, calls, steps, logged, ret, raised>>

\* line 209
ShowEnvVenv ==
    /\ pc = "show_env_venv"
    /\ steps' = Append(steps, "show_env")
    /\ pc' = "pip_upgrade"
    /\ UNCHANGED <<args_os, inputs, spaces, jobv, envv, dirv, locals, outcome,
                   cleaned, calls, logged, ret, raised>>

\* lines 210-212
PipUpgrade ==
    /\ pc = "pip_upgrade"
    /\ JobRun("pip_upgrade",
              <<Quote(job_python), "-m", "pip", "install", "-U", "pip", "setuptools">>,
              TRUE, TRUE, "print_setuptools")
    /\ CmdFrame

\* PrintSetuptools as it would be were exit_on_error=False passed
PrintSetuptools_NonFatal ==
    /\ pc = "print_setuptools"
    /\ JobRun("print_setuptools",
              <<Quote(job_python), "-c",
                Quote("import setuptools; print(setuptools.__version__)")>>,
              TRUE, FALSE, "print_pip")
    /\ CmdFrame

\* lines 213-215
PrintSetuptools ==
    /\ pc = "print_setuptools"
    /\ JobRun("print_setuptools",
              <<Quote(job_python), "-c",
                Quote("import setuptools; print(setuptools.__version__)")>>,
              TRUE, TRUE, "print_pip")
    /\ CmdFrame

\* lines 216-217
PrintPip ==
    /\ pc = "print_pip"
    /\ JobRun("print_pip", <<Quote(job_python), "-m", "pip", "--version">>,
              TRUE, TRUE, "pip_install")
    /\ CmdFrame

\* lines 218-219
PipInstall ==
    /\ pc = "pip_install"
    /\ JobRun("pip_install",
              <<Quote(job_python), "-m", "pip", "install", "-U">> \o pip_dependencies,
              TRUE, TRUE, "fetch_manifest")
    /\ CmdFrame

\* lines 220-221
FetchManifest ==
    /\ pc = "fetch_manifest"
    /\ JobRun("fetch_manifest", <<"curl", "-sk", RepoFileUrl, "-o", "ros2.repos">>,
              FALSE, TRUE, "choose_vcs")
    /\ CmdFrame

\* ChooseVcs as it would be were the plain tool used in either mode
ChooseVcs_Plain ==
    /\ pc = "choose_vcs"
    /\ vcs_cmd' = <<"vcs">>
    /\ pc' = "vcs_import"
    /\ UNCHANGED <<args_os, inputs, spaces, jobv, envv, dirv, venv_path, retval,
                   outcome, cleaned, calls, steps, logged, ret, raised>>

\* lines 222-234: the manifest is printed, the source directory made, and
\* the repository tool's command prefix chosen
ChooseVcs ==
    /\ pc = "choose_vcs"
    /\ vcs_cmd' = IF do_venv
                    THEN <<Quote(job_python),
                           Quote(JoinPath(<<venv_path, "bin", "vcs">>))>>
                    ELSE <<"vcs">>
    /\ pc' = "vcs_import"
    /\ UNCHANGED <<args_os, inputs, spaces, jobv, envv, dirv, venv_path, retval,
                   outcome, cleaned, calls, steps, logged, ret, raised>>

\* VcsImport as it would be were the branch steps taken unconditionally
VcsImport_AlwaysBranch ==
    /\ pc = "vcs_import"
    /\ JobRun("vcs_import",
              vcs_cmd \o <<"import", Quote(sourcespace), "--input", "ros2.repos">>,
              TRUE, TRUE, "create_ci_default")
    /\ CmdFrame

\* lines 235-237
VcsImport ==
    /\ pc = "vcs_import"
    /\ JobRun("vcs_import",
              vcs_cmd \o <<"import", Quote(sourcespace), "--input", "ros2.repos">>,
              TRUE, TRUE,
              IF test_branch # "None" THEN "create_ci_default" ELSE "vcs_log")
    /\ CmdFrame

\* lines 238-241
CreateCiDefault ==
    /\ pc = "create_ci_default"
    /\ JobRun("create_ci_default",
              vcs_cmd \o <<"custom", ".", "--git", "--args", "checkout", "-b",
                           "__ci_default">>,
              TRUE, TRUE, "checkout_test_branch")
    /\ CmdFrame

\* lines 243-247
CheckoutTestBranch ==
    /\ pc = "checkout_test_branch"
    /\ JobRun("checkout_test_branch",
              vcs_cmd \o <<"custom", ".", "--args", "checkout", test_branch>>,
              FALSE, FALSE, "log_checkout")
    /\ CmdFrame

\* what an info() line about a return code leaves alone
InfoFrame ==
    UNCHANGED <<args_os, inputs, spaces, jobv, envv, dirv, locals, outcome,
                cleaned, calls, steps, ret, raised>>

\* lines 248-249
LogCheckout ==
    /\ pc = "log_checkout"
    /\ Info("checkout_test_branch", ret)
    /\ pc' = "rebase"
    /\ InfoFrame

\* Rebase as it would be were exit_on_error=False passed, as for the checkout
Rebase_NonFatal ==
    /\ pc = "rebase"
    /\ JobRun("rebase",
              vcs_cmd \o <<"custom", ".", "--git", "--args", "rebase", "__ci_default">>,
              FALSE, FALSE, "log_rebase")
    /\ CmdFrame

\* lines 251-254
Rebase ==
    /\ pc = "rebase"
    /\ JobRun("rebase",
              vcs_cmd \o <<"custom", ".", "--git", "--args", "rebase", "__ci_default">>,
              FALSE, TRUE, "log_rebase")
    /\ CmdFrame

\* lines 255-256
LogRebase ==
    /\ pc = "log_rebase"
    /\ Info("rebase", ret)
    /\ pc' = "vcs_log"
    /\ InfoFrame

\* lines 257-258
VcsLog ==
    /\ pc = "vcs_log"
    /\ JobRun("vcs_log", vcs_cmd \o <<"log", "-l1", Quote(sourcespace)>>,
              TRUE, TRUE, "setup_env")
    /\ CmdFrame

\* lines 259-260
SetupEnv ==
    /\ pc = "setup_env"
    /\ JobSetupEnv
    /\ steps' = Append(steps, "setup_env")
    /\ pc' = "ament_build"
    /\ UNCHANGED <<args_os, inputs, spaces, job, job_python, envv, dirv, locals,
                   outcome, cleaned, calls, logged, ret, raised>>

(***************************************************************************)
(* build_and_test(), lines 113 to 143, the build_function main() hands to  *)
(* run().                                                                  *)
(***************************************************************************)
\* lines 114-116
ament_py ==
    Quote(JoinPath(<<".", sourcespace, "ament", "ament_tools", "scripts", "ament.py">>))

\* (['--isolated'] if args.isolated else []) + args.ament_args
TrailingArgs == (IF isolated THEN <<"--isolated">> ELSE << >>) \o ament_args

\* AmentBuild as it would be were the build run with the interpreter the
\* script itself runs under
AmentBuild_SysExecutable ==
    /\ pc = "ament_build"
    /\ JobRun("ament_build",
              <<Quote(SysExecutable), "-u", ament_py, "build", "--build-tests",
                "--build-space", Quote(buildspace),
                "--install-space", Quote(installspace),
                Quote(sourcespace)>> \o TrailingArgs,
              TRUE, TRUE, "ament_test")
    /\ CmdFrame

\* lines 117-123
AmentBuild ==
    /\ pc = "ament_build"
    /\ JobRun("ament_build",
              <<Quote(job_python), "-u", ament_py, "build", "--build-tests",
                "--build-space", Quote(buildspace),
                "--install-space", Quote(installspace),
                Quote(sourcespace)>> \o TrailingArgs,
              TRUE, TRUE, "ament_test")
    /\ CmdFrame

\* AmentTest as it would be were exit_on_error left at its default
AmentTest_Fatal ==
    /\ pc = "ament_test"
    /\ JobRun("ament_test",
              <<Quote(job_python), "-u", ament_py, "test",
                "--build-space", Quote(buildspace),
                "--install-space", Quote(installspace),
                "--skip-build", "--skip-install",
                Quote(sourcespace)>> \o TrailingArgs,
              TRUE, TRUE, "log_test")
    /\ CmdFrame

\* lines 124-133
AmentTest ==
    /\ pc = "ament_test"
    /\ JobRun("ament_test",
              <<Quote(job_python), "-u", ament_py, "test",
                "--build-space", Quote(buildspace),
                "--install-space", Quote(installspace),
                "--skip-build", "--skip-install",
                Quote(sourcespace)>> \o TrailingArgs,
              TRUE, FALSE, "log_test")
    /\ CmdFrame

\* line 134
LogTest ==
    /\ pc = "log_test"
    /\ Info("ament_test", ret)
    /\ pc' = "ament_test_results"
    /\ InfoFrame

\* lines 135-139
AmentTestResults ==
    /\ pc = "ament_test_results"
    /\ JobRun("ament_test_results",
              <<Quote(job_python), "-u", ament_py, "test_results", Quote(buildspace)>>,
              TRUE, FALSE, "log_test_results")
    /\ CmdFrame

\* line 140
LogTestResults ==
    /\ pc = "log_test_results"
    /\ Info("ament_test_results", ret)
    /\ pc' = "build_and_test_return"
    /\ InfoFrame

\* BuildAndTestReturn as it would be with the disabled line 142 in force
BuildAndTestReturn_Aggregate ==
    /\ pc = "build_and_test_return"
    /\ retval' = IF \E i \in 1..Len(logged) :
                       /\ logged[i].step \in {"ament_test", "ament_test_results"}
                       /\ logged[i].status # 0
                  THEN 1 ELSE 0
    /\ pc' = "run_return"
    /\ UNCHANGED <<args_os, inputs, spaces, jobv, envv, dirv, venv_path, vcs_cmd,
                   outcome, cleaned, calls, steps, logged, ret, raised>>

\* lines 141-143
BuildAndTestReturn ==
    /\ pc = "build_and_test_return"
    /\ retval' = 0
    /\ pc' = "run_return"
    /\ UNCHANGED <<args_os, inputs, spaces, jobv, envv, dirv, venv_path, vcs_cmd,
                   outcome, cleaned, calls, steps, logged, ret, raised>>

(***************************************************************************)
(* Leaving run() and the process.                                          *)
(***************************************************************************)
\* line 262 inside the block of line 201: the value is returned through the
\* with statement, which leaves the workspace directory
RunReturn ==
    /\ pc = "run_return"
    /\ ChangeDirectoryExit
    /\ pc' = "main_return"
    /\ UNCHANGED <<args_os, inputs, spaces, jobv, envv, locals, outcome, cleaned,
                   calls, steps, logged, ret, raised>>

\* Unwind as it would be were the directory entered with a bare chdir
\* undone only at the end of the block
Unwind_NoRestore ==
    /\ pc = "raise"
    /\ scope # << >>
    /\ scope' = SubSeq(scope, 1, Len(scope) - 1)
    /\ pc' = "raise"
    /\ UNCHANGED <<args_os, inputs, spaces, jobv, envv, cwd, locals, outcome,
                   cleaned, calls, steps, logged, ret, raised>>

\* lines 201-262: an exception raised inside the block leaves the with
\* statement, which leaves the workspace directory, and goes on up
Unwind ==
    /\ pc = "raise"
    /\ scope # << >>
    /\ ChangeDirectoryExit
    /\ pc' = "raise"
    /\ UNCHANGED <<args_os, inputs, spaces, jobv, envv, locals, outcome, cleaned,
                   calls, steps, logged, ret, raised>>

\* lines 57-59 and 264-265: sys.exit(main()) with the value run() returned
ExitOnReturn ==
    /\ pc = "main_return"
    /\ exit_status' = retval
    /\ exit_message' = ""
    /\ pc' = "exited"
    /\ UNCHANGED <<args_os, inputs, spaces, jobv, envv, dirv, locals, cleaned,
                   calls, steps, logged, ret, raised>>

\* ExitOnRaise as it would be were the exception caught at the top and
\* turned into a generic failure status
ExitOnRaise_Generic ==
    /\ pc = "raise"
    /\ scope = << >>
    /\ exit_status' = 1
    /\ exit_message' = raised[1].message
    /\ pc' = "exited"
    /\ UNCHANGED <<args_os, inputs, spaces, jobv, envv, dirv, locals, cleaned,
                   calls, steps, logged, ret, raised>>

\* lines 57-59 and 264-265: nothing catches the exception; the process ends
\* with the status it carries
ExitOnRaise ==
    /\ pc = "raise"
    /\ scope = << >>
    /\ exit_status' = raised[1].status
    /\ exit_message' = raised[1].message
    /\ pc' = "exited"
    /\ UNCHANGED <<args_os, inputs, spaces, jobv, envv, dirv, locals, cleaned,
                   calls, steps, logged, ret, raised>>

Next ==
    \/ ResolvePaths
    \/ SelectVariant
    \/ CheckVenv
    \/ SetEnv
    \/ CleanWorkspace
    \/ Pre
    \/ ShowEnv
    \/ InstallVirtualenv
    \/ EnterWorkspace
    \/ CreateVenv
    \/ RebindRun
    \/ RebindPython
    \/ ShowEnvVenv
    \/ PipUpgrade
    \/ PrintSetuptools
    \/ PrintPip
    \/ PipInstall
    \/ FetchManifest
    \/ ChooseVcs
    \/ VcsImport
    \/ CreateCiDefault
    \/ CheckoutTestBranch
    \/ LogCheckout
    \/ Rebase
    \/ LogRebase
    \/ VcsLog
    \/ SetupEnv
    \/ AmentBuild
    \/ AmentTest
    \/ LogTest
    \/ AmentTestResults
    \/ LogTestResults
    \/ BuildAndTestReturn
    \/ RunReturn
    \/ Unwind
    \/ ExitOnReturn
    \/ ExitOnRaise

Spec == Init /\ [][Next]_vars

(***************************************************************************)
(* Properties.                                                             *)
(***************************************************************************)
Exited == pc = "exited"

Aborting == pc \in {"raise", "exited"} /\ raised # << >>

LastCall == calls[Len(calls)]

\* C1: a command issued with exit_on_error at its default that returns a
\* nonzero status is the last entry of the call log, the run is ending on
\* it, and the process ends with exactly that status.
C1_FatalFailureEndsRun ==
    \A i \in 1..Len(calls) :
        (calls[i].exit_on_error /\ calls[i].status # 0) =>
            /\ i = Len(calls)
            /\ Aborting
            /\ raised[1].status = calls[i].status
            /\ Exited => exit_status = calls[i].status

\* A run that ended on a failed build with a status other than 1.
C1_Witness ==
    /\ Exited
    /\ calls # << >>
    /\ LastCall.step = "ament_build"
    /\ LastCall.exit_on_error
    /\ LastCall.status = 2
    /\ exit_status = 2

\* the call sites that pass exit_on_error=False, and the call site each is
\* followed by in source order ("" where the function returns)
NonFatalSteps == {"checkout_test_branch", "ament_test", "ament_test_results"}

FollowingStep(step) ==
    CASE step = "checkout_test_branch" -> "rebase"
      [] step = "ament_test" -> "ament_test_results"
      [] step = "ament_test_results" -> ""

\* where control is between a non-fatal call site and the one that follows
Between(step) ==
    CASE step = "checkout_test_branch" -> {"log_checkout", "rebase"}
      [] step = "ament_test" -> {"log_test", "ament_test_results"}
      [] step = "ament_test_results" ->
            {"log_test_results", "build_and_test_return", "run_return",
             "main_return", "exited"}

\* C2: a nonzero status of the test-branch checkout, of ament test or of
\* ament test_results does not stop the run: the call site that follows is
\* reached and issued, and a run in which no other command failed ends
\* with status 0.
C2_NonFatalFailureContinues ==
    /\ \A i \in 1..Len(calls) :
          (calls[i].step \in NonFatalSteps /\ calls[i].status # 0) =>
              IF i < Len(calls)
                THEN calls[i + 1].step = FollowingStep(calls[i].step)
                ELSE pc \in Between(calls[i].step)
    /\ (Exited /\ exit_message = ""
          /\ \A i \in 1..Len(calls) :
                calls[i].step \in NonFatalSteps \/ calls[i].status = 0)
       => exit_status = 0

\* A run with a test branch in which all three non-fatal commands failed
\* and which ended with status 0.
C2_Witness ==
    /\ Exited
    /\ exit_status = 0
    /\ \A s \in NonFatalSteps :
          \E i \in 1..Len(calls) : calls[i].step = s /\ calls[i].status # 0
    /\ \E i \in 1..Len(calls) : calls[i].step = "rebase"

\* C3: with --do-venv and the Windows variant the run is rejected before
\* anything is done: no command is issued, the workspace is not cleaned,
\* no environment variable is written, no hook is called, and the process
\* ends with the error message and status 1.
C3_VenvOnWindowsRejected ==
    (do_venv /\ job = "WindowsBatchJob") =>
        /\ calls = << >>
        /\ steps = << >>
        /\ cleaned = 0
        /\ env_writes = {}
        /\ env_ConEmuANSI = env0_ConEmuANSI
        /\ env_TERM = env0_TERM
        /\ pc \in {"check_venv", "raise", "exited"}
        /\ Exited => /\ exit_status = 1
                     /\ exit_message = "--do-venv is not supported on windows"

\* The rejected run, ended.
C3_Witness ==
    /\ Exited
    /\ do_venv
    /\ job = "WindowsBatchJob"
    /\ exit_status = 1
    /\ exit_message = "--do-venv is not supported on windows"

\* past lines 162-174
VariantSelected == pc \notin {"resolve_paths", "select_variant"}

\* C4: whatever the host platform, an --os override names the variant that
\* is instantiated and the value args.os holds afterwards.
C4_OverrideNamesVariant ==
    (VariantSelected /\ os_arg # "None") =>
        /\ job = JobClass(os_arg)
        /\ args_os = os_arg

\* the virtual env's interpreter, from the directory the run started in
ExpectedVenvPython == JoinPath(<<StartDir, workspace, "venv", "bin", "python">>)

\* the call log holds the command that created the virtual env before entry i
AfterRebind(i) == \E j \in 1..(i - 1) : calls[j].step = "create_venv"

Tokens(cmd) == {cmd[k] : k \in 1..Len(cmd)}

C5_BindingPerCall ==
    do_venv =>
        \A i \in 1..Len(calls) :
            IF AfterRebind(i)
              THEN /\ calls[i].run[1] = "venv"
                   /\ calls[i].python = ExpectedVenvPython
                   /\ calls[i].step # "fetch_manifest"
                        => calls[i].cmd[1] = Quote(ExpectedVenvPython)
                   /\ Tokens(calls[i].cmd)
                        \cap {SysExecutable, Quote(SysExecutable)} = {}
              ELSE /\ calls[i].run = <<"run">>
                   /\ calls[i].python = SysExecutable
                   /\ calls[i].cmd[1] = SysExecutable

C5_LogKept ==
    \A i \in 1..Len(calls) : Len(calls') >= i /\ calls'[i] = calls[i]

\* C5: in a run with a virtual env, every command issued after the rebind
\* goes through the virtual env's run binding and names the virtual env's
\* interpreter, those of build_and_test() included; every command issued
\* before it is logged with the original binding and interpreter; and no
\* step changes an entry already in the call log.
C5_RebindObserved == [](C5_BindingPerCall) /\ [][C5_LogKept]_vars

\* A run with a virtual env that got as far as a command of
\* build_and_test(), with commands logged on both sides of the rebind.
C5_Witness ==
    /\ do_venv
    /\ \E i \in 1..Len(calls) : calls[i].step = "ament_test_results"
    /\ calls[1].run = <<"run">>
    /\ calls[1].python = SysExecutable
    /\ LastCall.run[1] = "venv"
    /\ LastCall.cmd[1] = Quote(ExpectedVenvPython)

\* build_and_test() has returned
BuildAndTestReturned == pc \in {"run_return", "main_return"} \/ (Exited /\ raised = << >>)

\* C6: build_and_test() returns 0 whatever ament test and ament
\* test_results returned, provided ament build returned 0; a nonzero status
\* of ament build ends the run before either of them is issued.
C6_BuildAndTestStatus ==
    /\ \A i \in 1..Len(calls) :
          calls[i].step = "ament_build" =>
              IF calls[i].status # 0
                THEN i = Len(calls) /\ Aborting
                ELSE /\ ~Aborting
                     /\ BuildAndTestReturned =>
                          /\ Len(calls) = i + 2
                          /\ calls[i + 1].step = "ament_test"
                          /\ calls[i + 2].step = "ament_test_results"
    /\ BuildAndTestReturned => retval = 0
    /\ (Exited /\ raised = << >>) => exit_status = 0

\* build_and_test() returned 0 although both ament test and ament
\* test_results failed.
C6_Witness ==
    /\ pc = "run_return"
    /\ retval = 0
    /\ Len(calls) >= 3
    /\ calls[Len(calls) - 2].step = "ament_build"
    /\ calls[Len(calls) - 1].status # 0
    /\ LastCall.status # 0

\* C7 as claimed: a rebase onto '__ci_default' that returns nonzero does
\* not terminate the run, which proceeds to the next step.
C7_FailedRebaseProceeds ==
    \A i \in 1..Len(calls) :
        (calls[i].step = "rebase" /\ calls[i].status # 0) => ~Aborting

\* C7 as the code has it: a rebase onto '__ci_default' that returns
\* nonzero ends the run with the rebase's status; its return code is not
\* logged and the latest-commit log is not issued.
C7_FailedRebaseEndsRun ==
    \A i \in 1..Len(calls) :
        (calls[i].step = "rebase" /\ calls[i].status # 0) =>
            /\ i = Len(calls)
            /\ Aborting
            /\ Exited => exit_status = calls[i].status
            /\ \A k \in 1..Len(logged) : logged[k].step # "rebase"

\* A run ended by a failed rebase that followed a failed, logged checkout.
C7_Witness ==
    /\ Exited
    /\ Len(calls) >= 2
    /\ LastCall.step = "rebase"
    /\ LastCall.status = 2
    /\ exit_status = 2
    /\ calls[Len(calls) - 1].step = "checkout_test_branch"
    /\ calls[Len(calls) - 1].status # 0
    /\ logged = <<[step |-> "checkout_test_branch",
                   status |-> calls[Len(calls) - 1].status]>>

PackagingSteps == {"pip_upgrade", "print_setuptools", "print_pip"}

\* C8 as claimed: a nonzero status of the pip/setuptools upgrade or of
\* either version-printing command does not end the run.
C8_PackagingFailureContinues ==
    \A i \in 1..Len(calls) :
        (calls[i].step \in PackagingSteps /\ calls[i].status # 0) => ~Aborting

\* C8 as the code has it: the pip/setuptools upgrade and the two
\* version-printing commands are issued with exit_on_error at its default;
\* a nonzero status of any of them ends the run with that status, and the
\* auxiliary packages are not installed.
C8_PackagingFailureEndsRun ==
    \A i \in 1..Len(calls) :
        calls[i].step \in PackagingSteps =>
            /\ calls[i].exit_on_error
            /\ calls[i].status # 0 =>
                  /\ i = Len(calls)
                  /\ Aborting
                  /\ Exited => exit_status = calls[i].status

\* A run ended by a failed version-printing command.
C8_Witness ==
    /\ Exited
    /\ calls # << >>
    /\ LastCall.step = "print_setuptools"
    /\ LastCall.status = 2
    /\ exit_status = 2

\* C9: outside the block of line 201 the working directory is the one the
\* run started in, inside it the workspace directory; the block is left,
\* and the directory restored, before the process ends, on return and on
\* an abort alike.
C9_DirectoryRestored ==
    /\ scope = << >> => cwd = StartDir
    /\ scope # << >> => /\ scope = <<StartDir>>
                        /\ cwd = JoinPath(<<StartDir, workspace>>)
    /\ pc \in {"main_return", "exited"} => scope = << >>

\* A run aborted by a command issued inside the workspace directory has
\* ended in the directory it started in.
C9_Witness ==
    /\ Exited
    /\ raised # << >>
    /\ calls # << >>
    /\ LastCall.status # 0
    /\ LastCall.cwd = JoinPath(<<StartDir, workspace>>)
    /\ LastCall.cwd # StartDir
    /\ cwd = StartDir

\* a finished run of the Linux variant without virtual env or test branch
\* in which every command returned 0
PlainLinuxRunDone ==
    /\ Exited
    /\ raised = << >>
    /\ job = "LinuxBatchJob"
    /\ ~do_venv
    /\ test_branch = "None"
    /\ \A i \in 1..Len(calls) : calls[i].status = 0

\* C10 as claimed: the steps of such a run are exactly these.
C10_ClaimedSequence ==
    PlainLinuxRunDone =>
        /\ steps = <<"clean_workspace", "pre", "show_env", "enter_workspace",
                     "pip_upgrade", "pip_install", "fetch_manifest", "vcs_import",
                     "vcs_log", "setup_env", "ament_build", "ament_test",
                     "ament_test_results">>
        /\ exit_status = 0

\* C10 as the code has it: the two version-printing commands come between
\* the pip/setuptools upgrade and the installation of the auxiliary
\* packages; otherwise the sequence is the claimed one and the status 0.
C10_ObservedSequence ==
    PlainLinuxRunDone =>
        /\ steps = <<"clean_workspace", "pre", "show_env", "enter_workspace",
                     "pip_upgrade", "print_setuptools", "print_pip", "pip_install",
                     "fetch_manifest", "vcs_import", "vcs_log", "setup_env",
                     "ament_build", "ament_test", "ament_test_results">>
        /\ exit_status = 0

\* Such a run, with its ten commands logged.
C10_Witness ==
    /\ PlainLinuxRunDone
    /\ Len(calls) = 10
    /\ exit_status = 0

BranchSteps == {"create_ci_default", "checkout_test_branch", "rebase"}

\* how many times a step has been carried out
CountStep(name) == Cardinality({k \in 1..Len(steps) : steps[k] = name})

\* call i is the command of call site `step`, issued with this exit_on_error
IsCall(i, step, fatal) ==
    /\ i \in 1..Len(calls)
    /\ calls[i].step = step
    /\ calls[i].exit_on_error = fatal

\* C11: with a test branch, the import is followed by the creation of
\* '__ci_default' (fatal), the checkout of the test branch (not fatal) and
\* the rebase onto '__ci_default' (fatal), each once and in this order, and
\* the latest-commit log comes right after the rebase; without a test
\* branch none of the three is issued and the log follows the import.
C11_BranchCommands ==
    /\ \A name \in BranchSteps : CountStep(name) <= 1
    /\ \A i \in 1..Len(calls) :
          /\ calls[i].step = "create_ci_default" =>
                /\ test_branch # "None"
                /\ IsCall(i - 1, "vcs_import", TRUE)
                /\ calls[i].exit_on_error
                /\ calls[i].cmd = vcs_cmd \o <<"custom", ".", "--git", "--args",
                                              "checkout", "-b", "__ci_default">>
                /\ calls[i].status # 0 => (i = Len(calls) /\ Aborting)
          /\ calls[i].step = "checkout_test_branch" =>
                /\ IsCall(i - 1, "create_ci_default", TRUE)
                /\ ~calls[i].exit_on_error
                /\ calls[i].cmd = vcs_cmd \o <<"custom", ".", "--args", "checkout",
                                              test_branch>>
                /\ ~(i = Len(calls) /\ Aborting)
          /\ calls[i].step = "rebase" =>
                /\ IsCall(i - 1, "checkout_test_branch", FALSE)
                /\ calls[i].exit_on_error
                /\ calls[i].cmd = vcs_cmd \o <<"custom", ".", "--git", "--args",
                                              "rebase", "__ci_default">>
                /\ calls[i].status # 0 => (i = Len(calls) /\ Aborting)
          /\ calls[i].step = "vcs_log" =>
                IF test_branch # "None"
                  THEN IsCall(i - 1, "rebase", TRUE)
                  ELSE IsCall(i - 1, "vcs_import", TRUE)
    /\ test_branch = "None" => \A name \in BranchSteps : CountStep(name) = 0

\* A run with a test branch that logged the latest commits after a failed
\* checkout and a successful rebase.
C11_Witness ==
    /\ test_branch = "release-x"
    /\ calls # << >>
    /\ LastCall.step = "vcs_log"
    /\ Len(calls) >= 5
    /\ calls[Len(calls) - 2].step = "checkout_test_branch"
    /\ calls[Len(calls) - 2].status # 0
    /\ calls[Len(calls) - 3].step = "create_ci_default"

\* the first index of a step in steps (0 when absent)
IndexOf(name) ==
    IF \E k \in 1..Len(steps) : steps[k] = name
      THEN CHOOSE k \in 1..Len(steps) :
              steps[k] = name /\ \A j \in 1..(k - 1) : steps[j] # name
      ELSE 0

\* C12: the virtualenv tooling is installed by the macOS and Windows
\* variants, once, right after the first show_env() and right before the
\* workspace directory is entered, and never by the Linux variant.
C12_VirtualenvInstall ==
    /\ CountStep("install_virtualenv") <= 1
    /\ job = "LinuxBatchJob" => CountStep("install_virtualenv") = 0
    /\ \A k \in 1..Len(steps) :
          steps[k] = "install_virtualenv" =>
              /\ job \in {"OSXBatchJob", "WindowsBatchJob"}
              /\ k > 1
              /\ steps[k - 1] = "show_env"
              /\ IndexOf("show_env") = k - 1
              /\ calls[1].step = "install_virtualenv"
              /\ calls[1].cwd = StartDir
    /\ \A k \in 1..Len(steps) :
          steps[k] = "enter_workspace" =>
              IF job = "LinuxBatchJob"
                THEN steps[k - 1] = "show_env"
                ELSE steps[k - 1] = "install_virtualenv"

\* The Windows variant installed the tooling and then entered the workspace.
C12_Witness ==
    /\ job = "WindowsBatchJob"
    /\ CountStep("install_virtualenv") = 1
    /\ Len(steps) >= 5
    /\ steps[Len(steps)] = "enter_workspace"
    /\ steps[Len(steps) - 1] = "install_virtualenv"

\* a run binding and an interpreter path that belong together
ConsistentPair(run, python) ==
    /\ run # << >>
    /\ \/ run[1] = "run" /\ python = SysExecutable
       \/ run[1] = "venv" /\ python = ExpectedVenvPython

C13_PairPerCall ==
    /\ \A i \in 1..Len(calls) :
          /\ ConsistentPair(calls[i].run, calls[i].python)
          /\ AfterRebind(i) => calls[i].run[1] = "venv"
    /\ (job # "None" /\ ~ConsistentPair(job_run, job_python)) => pc = "push_python"

C13_NothingBetween ==
    pc = "push_python" => (calls' = calls /\ steps' = steps /\ pc' = "show_env_venv")

\* C13: every command is issued with a run binding and an interpreter path
\* that are both the original ones or both the virtual env's; the two are
\* apart only between push_run and push_python, where no command is issued
\* and no hook called, and every command after the virtual env was created
\* goes through the virtual env's binding.
C13_ConsistentBindings == [](C13_PairPerCall) /\ [][C13_NothingBetween]_vars

\* The first command after the rebind, issued with the virtual env's pair
\* right after the one that created the virtual env with the original pair.
C13_Witness ==
    /\ Len(calls) >= 2
    /\ LastCall.step = "pip_upgrade"
    /\ LastCall.run = <<"venv">>
    /\ LastCall.python = ExpectedVenvPython
    /\ calls[Len(calls) - 1].step = "create_venv"
    /\ calls[Len(calls) - 1].run = <<"run">>
    /\ calls[Len(calls) - 1].python = SysExecutable

\* the actions of a run in source order
PcOrder ==
    <<"resolve_paths", "select_variant", "check_venv", "set_env", "clean_workspace",
      "pre", "show_env", "install_virtualenv", "enter_workspace", "create_venv",
      "push_run", "push_python", "show_env_venv", "pip_upgrade", "print_setuptools",
      "print_pip", "pip_install", "fetch_manifest", "choose_vcs", "vcs_import",
      "create_ci_default", "checkout_test_branch", "log_checkout", "rebase",
      "log_rebase", "vcs_log", "setup_env", "ament_build", "ament_test", "log_test",
      "ament_test_results", "log_test_results", "build_and_test_return",
      "run_return", "main_return", "raise", "exited">>

Rank(p) == CHOOSE k \in 1..Len(PcOrder) : PcOrder[k] = p

RepositorySteps == {"vcs_import", "vcs_log"} \cup BranchSteps

BuildSteps == {"ament_build", "ament_test", "ament_test_results"}

C14_Lifecycle ==
    /\ cleaned <= 1
    /\ CountStep("clean_workspace") = cleaned
    /\ calls # << >> => (cleaned = 1 /\ steps[1] = "clean_workspace")
    /\ CountStep("pre") <= 1
    /\ IndexOf("show_env") # 0 =>
          (IndexOf("pre") # 0 /\ IndexOf("pre") < IndexOf("show_env"))
    /\ CountStep("create_venv") <= 1
    /\ (CountStep("create_venv") = 1 \/ (job_run # << >> /\ job_run[1] = "venv")
          \/ job_python \notin {"", SysExecutable}) => do_venv
    /\ CountStep("setup_env") <= 1
    /\ \A k \in 1..Len(steps) :
          /\ steps[k] \in RepositorySteps =>
                (IndexOf("setup_env") = 0 \/ k < IndexOf("setup_env"))
          /\ steps[k] \in BuildSteps =>
                (IndexOf("setup_env") # 0 /\ IndexOf("setup_env") < k)
          /\ steps[k] = "setup_env" => steps[k - 1] = "vcs_log"

C14_Forward ==
    /\ Rank(pc') >= Rank(pc)
    /\ cleaned' >= cleaned
    /\ job # "None" => (job' = job /\ args_os' = args_os)
    /\ (job_run # << >> /\ job_run[1] = "venv") => job_run'[1] = "venv"

\* C14: the run only moves forward.  The workspace is cleaned once, before
\* any command; pre() is called once, before the first show_env(); the
\* virtual env is created and bound at most once, only when asked for, and
\* never unbound; setup_env() is called once, after the repository steps
\* and before the commands of the build function; the variant, once
\* chosen, stays.
C14_ForwardOnly == [](C14_Lifecycle) /\ [][C14_Forward]_vars

\* A run with a virtual env and a test branch that went through every
\* stage and returned.
C14_Witness ==
    /\ Exited
    /\ raised = << >>
    /\ do_venv
    /\ test_branch # "None"
    /\ cleaned = 1
    /\ CountStep("pre") = 1
    /\ CountStep("create_venv") = 1
    /\ CountStep("setup_env") = 1
    /\ CountStep("show_env") = 2

\* the vcs script of the virtual env, from the directory the run started in
ExpectedVenvVcs == JoinPath(<<StartDir, workspace, "venv", "bin", "vcs">>)

\* C15: with a virtual env every repository-tool command (import, branch
\* creation, checkout, rebase, log) starts with the virtual env's
\* interpreter, which is the one active when it is issued, followed by the
\* virtual env's vcs script; without one it starts with the plain 'vcs'.
C15_RepositoryToolPrefix ==
    \A i \in 1..Len(calls) :
        calls[i].step \in RepositorySteps =>
            IF do_venv
              THEN /\ Len(calls[i].cmd) > 2
                   /\ calls[i].cmd[1] = Quote(ExpectedVenvPython)
                   /\ calls[i].cmd[1] = Quote(calls[i].python)
                   /\ calls[i].cmd[2] = Quote(ExpectedVenvVcs)
                   /\ calls[i].cmd[3] \in {"import", "custom", "log"}
              ELSE /\ calls[i].cmd[1] = "vcs"
                   /\ calls[i].cmd[2] \in {"import", "custom", "log"}

\* A run with a virtual env and a test branch that issued all five
\* repository-tool commands.
C15_Witness ==
    /\ do_venv
    /\ \A name \in RepositorySteps : CountStep(name) = 1
    /\ LastCall.step = "vcs_log"
    /\ LastCall.cmd[2] = Quote(ExpectedVenvVcs)

\* lines 179-184 have been carried out
EnvStepDone == Rank(pc) > Rank("set_env") /\ "TERM" \in env_writes

\* C16: once the environment step is done, and so whenever a command is
\* spawned, TERM has the value it was inherited with, or 'xterm-256color'
\* when it was not set; ConEmuANSI is 'ON' for the Windows variant and as
\* inherited, and not written, for the others.
C16_Environment ==
    /\ (calls # << >> \/ steps # << >>) => EnvStepDone
    /\ EnvStepDone =>
          /\ env_TERM = IF env0_TERM = "unset" THEN "xterm-256color" ELSE env0_TERM
          /\ IF job = "WindowsBatchJob"
               THEN env_ConEmuANSI = "ON" /\ env_writes = {"TERM", "ConEmuANSI"}
               ELSE env_ConEmuANSI = env0_ConEmuANSI /\ env_writes = {"TERM"}

\* The Windows variant issued a command with an inherited TERM kept and
\* an inherited ConEmuANSI replaced.
C16_Witness ==
    /\ job = "WindowsBatchJob"
    /\ calls # << >>
    /\ env0_TERM = "dumb"
    /\ env_TERM = "dumb"
    /\ env0_ConEmuANSI = "OFF"
    /\ env_ConEmuANSI = "ON"

\* C17: whenever the workspace has been cleaned, a hook called or a
\* command issued, a batch job has been instantiated.
C17_JobBeforeSideEffects ==
    (cleaned > 0 \/ steps # << >> \/ calls # << >>) => job # "None"

\* the strings run() and build_and_test() wrap in double quotes
Quotable ==
    {SysExecutable, ExpectedVenvPython, ExpectedVenvVcs, sourcespace, buildspace,
     installspace,
     JoinPath(<<".", sourcespace, "ament", "ament_tools", "scripts", "ament.py">>),
     "import setuptools; print(setuptools.__version__)"}

\* the token is some string wrapped in literal double quotes
IsQuoted(token) == token \in {Quote(x) : x \in Quotable}

\* C18: every command with a token wrapped in literal double quotes is
\* issued with shell=True.
C18_QuotedNeedsShell ==
    \A i \in 1..Len(calls) :
        (\E token \in Tokens(calls[i].cmd) : IsQuoted(token)) => calls[i].shell

====
